---------------------------- MODULE Spec2Model ----------------------------
(***************************************************************************)
(* django-rest-auth, rest_auth/views.py: the REST views Login, Logout,     *)
(* UserDetails, PasswordReset, PasswordResetConfirm and PasswordChange,    *)
(* run by several clients at once against one token table, one user table  *)
(* and one session per client.                                             *)
(*                                                                         *)
(* A request is a sequence of steps; each step holds at most one access to *)
(* the token table, so that requests of different clients interleave       *)
(* between the accesses (get_or_create is get, then create, then get       *)
(* again after an IntegrityError).                                         *)
(*                                                                         *)
(* 0 stands for None: no user (AnonymousUser), no token, unknown username. *)
(***************************************************************************)
EXTENDS Integers, FiniteSets

\* ------------------------------------------------------------------ bounds
NumUsers == 2
NumClients == 2
NumKeys == 2

Users == 1..NumUsers
Clients == 1..NumClients
Keys == 1..NumKeys
UserOrNone == 0..NumUsers
KeyOrNone == 0..NumKeys

\* -------------------------------------------------------- program constants
HTTP_200_OK == "200 OK"
HTTP_400_BAD_REQUEST == "400 BAD REQUEST"
\* the answer of the authentication gate (IsAuthenticated) to an anonymous request
HTTP_401_UNAUTHORIZED == "401 UNAUTHORIZED"
\* an exception that leaves the view: the response is no Response of the view
UNHANDLED == "unhandled exception"

VARIABLES
    REST_SESSION_LOGIN, \* settings.REST_SESSION_LOGIN: "unset", "True" or "False"
    active,             \* User.is_active, per user
    tokens,             \* the Token table: rows [user, key]
    session,            \* per client: the user of its Django session, or 0
    pc,                 \* per client: where its request stands
    ruser,              \* per client: self.user / request.user of the request
    rtok,               \* per client: self.token of the request (its key), or 0
    raised,             \* per client: what the token table raised in the request
    resp,               \* per client: the last response [op, status, user, token]
    tstate              \* history, per client: what has happened to the token
                        \*   its login was handed (see TokenStates)

vars == <<REST_SESSION_LOGIN, active, tokens, session,
          pc, ruser, rtok, raised, resp, tstate>>


\* ----------------------------------------------------------------- helpers
Row(u, k) == [user |-> u, key |-> k]
RowsOf(u) == {t \in tokens : t.user = u}

\* a response: the view, the status, and for a login the user and the token key
NoResponse == [op |-> "none", status |-> "none", user |-> 0, token |-> 0]
Response(o, s, u, k) == [op |-> o, status |-> s, user |-> u, token |-> k]

\* getattr(settings, 'REST_SESSION_LOGIN', True)
session_login_enabled ==
    IF REST_SESSION_LOGIN = "unset" THEN TRUE ELSE REST_SESSION_LOGIN = "True"

\* LoginSerializer.is_valid(): the user the credentials name, or 0. The input
\* is refused when the username is unknown or missing (0), the password is
\* not the user's (pwOk is what the credential check of django.contrib.auth
\* answers), or the account is inactive.
LoginSerializer_user(username, pwOk) ==
    IF username \in Users /\ pwOk /\ active[username]
    THEN username ELSE 0

\* TokenAuthentication: the user a presented key resolves to, or 0 (invalid
\* token: no row with the key, or the owner is inactive).
resolve(k) ==
    IF \E t \in tokens : t.key = k /\ active[t.user]
    THEN (CHOOSE t \in tokens : t.key = k /\ active[t.user]).user
    ELSE 0

\* SessionAuthentication: the active user of the client's session, or 0.
SessionAuthentication(c) ==
    IF session[c] # 0 /\ active[session[c]] THEN session[c] ELSE 0

\* authentication_classes = (SessionAuthentication, TokenAuthentication),
\* permission_classes = (IsAuthenticated,): the request's user, 0 when the
\* request is refused. k is the key of the Authorization header, 0 without.
LoggedInRESTAPIView(c, k) ==
    IF SessionAuthentication(c) # 0 THEN SessionAuthentication(c)
    ELSE IF k # 0 THEN resolve(k)
    ELSE 0

\* The Token table with the primary key alone: user is a plain ForeignKey.
IntegrityError_no_unique_user(u, k) ==
    \E t \in tokens : t.key = k

\* The Token table with the unique user alone: the key is no primary key.
IntegrityError_no_primary_key(u, k) ==
    \E t \in tokens : t.user = u

\* The constraints of the Token table: user is a OneToOneField (unique),
\* key is the primary key.
IntegrityError(u, k) ==
    \E t \in tokens : t.user = u \/ t.key = k

\* ----------------------------------------------------------------- history
\* The token a client was handed by its login: by get_or_create while the
\* request is still in Login.login, by the 200 response afterwards, until the
\* client's next request.
heldUser(d) ==
    IF pc[d] = "login" THEN ruser[d]
    ELSE IF resp[d].op = "login" /\ resp[d].status = HTTP_200_OK THEN resp[d].user
    ELSE 0
heldKey(d) ==
    IF pc[d] = "login" THEN rtok[d]
    ELSE IF resp[d].op = "login" /\ resp[d].status = HTTP_200_OK THEN resp[d].token
    ELSE 0

\* "none"     the client holds no token, or a later login of its user was
\*            handed a token after the logout (what the logout did is over)
\* "live"     handed by get_or_create, no logout of its user since
\* "kept"     its user logged out since, and the deletion failed
\* "revoked"  its user logged out since, and the deletion did not fail
\* "reminted" revoked, and then the login of another user minted the same key
TokenStates == {"none", "live", "kept", "revoked", "reminted"}

\* get_or_create hands key k to the login of user u run by client c; minted
\* tells that the row was created.
Handed(c, u, k, minted) ==
    tstate' = [d \in Clients |->
        IF d = c THEN "live"
        ELSE IF heldUser(d) = u /\ tstate[d] \in {"kept", "revoked", "reminted"}
        THEN "none"
        ELSE IF minted /\ heldKey(d) = k /\ tstate[d] = "revoked"
        THEN "reminted"
        ELSE tstate[d]]

\* Logout.post of user u has run its delete; failed tells that it raised
\* StoreUnavailable. Client c is the one logging out.
LoggedOut(c, u, failed) ==
    tstate' = [d \in Clients |->
        IF d = c THEN "none"
        ELSE IF heldUser(d) = u /\ tstate[d] \in {"live", "kept"}
        THEN (IF failed THEN "kept" ELSE "revoked")
        ELSE tstate[d]]

\* A request ends: the response is recorded and the request's locals dropped.
Respond(c, r) ==
    /\ resp' = [resp EXCEPT ![c] = r]
    /\ pc' = [pc EXCEPT ![c] = "idle"]
    /\ ruser' = [ruser EXCEPT ![c] = 0]
    /\ rtok' = [rtok EXCEPT ![c] = 0]

\* A request begins: what the client kept of its last request is dropped.
Begin(c, u, next) ==
    /\ pc' = [pc EXCEPT ![c] = next]
    /\ ruser' = [ruser EXCEPT ![c] = u]
    /\ rtok' = [rtok EXCEPT ![c] = 0]
    /\ raised' = [raised EXCEPT ![c] = "none"]
    /\ resp' = [resp EXCEPT ![c] = NoResponse]
    /\ tstate' = [tstate EXCEPT ![c] = "none"]

\* A request that is one step: it answers at once.
Answer(c, r) ==
    /\ Respond(c, r)
    /\ raised' = [raised EXCEPT ![c] = "none"]
    /\ tstate' = [tstate EXCEPT ![c] = "none"]

\* ------------------------------------------------------------------- Init
Init ==
    /\ REST_SESSION_LOGIN \in {"unset", "True", "False"}
    /\ active \in [Users -> BOOLEAN]
    /\ tokens = {}
    /\ session = [c \in Clients |-> 0]
    /\ pc = [c \in Clients |-> "idle"]
    /\ ruser = [c \in Clients |-> 0]
    /\ rtok = [c \in Clients |-> 0]
    /\ raised = [c \in Clients |-> "none"]
    /\ resp = [c \in Clients |-> NoResponse]
    /\ tstate = [c \in Clients |-> "none"]

\* ------------------------------------------------------------------ Login
\* Login.post without the return of the error response: a refused input of a
\* known username goes on to self.login().
Login_post_no_return(c, username, pwOk) ==
    /\ pc[c] = "idle"
    /\ IF username = 0
       THEN Answer(c, Response("login", HTTP_400_BAD_REQUEST, 0, 0))
       ELSE Begin(c, username, "get")
    /\ UNCHANGED <<REST_SESSION_LOGIN, active, tokens, session>>

\* Login.post, up to self.login(): the serializer validates the input.
Login_post(c, username, pwOk) ==
    /\ pc[c] = "idle"
    /\ IF LoginSerializer_user(username, pwOk) = 0
       THEN Answer(c, Response("login", HTTP_400_BAD_REQUEST, 0, 0))
       ELSE Begin(c, LoginSerializer_user(username, pwOk), "get")
    /\ UNCHANGED <<REST_SESSION_LOGIN, active, tokens, session>>

\* Login.login with the exception caught and passed over: the view answers 200.
Login_raise_swallowed(c, e) ==
    /\ Respond(c, Response("login", HTTP_200_OK, ruser[c], 0))
    /\ raised' = [raised EXCEPT ![c] = e]
    /\ UNCHANGED tstate

\* An exception of the token table inside Login.login: nothing catches it.
Login_raise(c, e) ==
    /\ Respond(c, Response("login", UNHANDLED, 0, 0))
    /\ raised' = [raised EXCEPT ![c] = e]
    /\ UNCHANGED tstate

\* get_or_create has its row: self.token is set, Login.login goes on.
get_or_create_return(c, k, minted) ==
    /\ rtok' = [rtok EXCEPT ![c] = k]
    /\ pc' = [pc EXCEPT ![c] = "login"]
    /\ Handed(c, ruser[c], k, minted)
    /\ UNCHANGED <<ruser, raised, resp>>

\* Login.login handing out a new token at each login: the row found is
\* deleted and a new one created.
get_or_create_get_rotating(c) ==
    /\ pc[c] = "get"
    /\ \/ /\ Login_raise(c, "StoreUnavailable")
          /\ UNCHANGED tokens
       \/ /\ tokens' = tokens \ RowsOf(ruser[c])
          /\ pc' = [pc EXCEPT ![c] = "create"]
          /\ UNCHANGED <<ruser, rtok, raised, resp, tstate>>
    /\ UNCHANGED <<REST_SESSION_LOGIN, active, session>>

\* Login.login, get_or_create: self.get(user=self.user)
get_or_create_get(c) ==
    /\ pc[c] = "get"
    /\ \/ Login_raise(c, "StoreUnavailable")
       \/ /\ RowsOf(ruser[c]) = {}
          /\ pc' = [pc EXCEPT ![c] = "create"]
          /\ UNCHANGED <<ruser, rtok, raised, resp, tstate>>
       \/ \E t \in RowsOf(ruser[c]) : get_or_create_return(c, t.key, FALSE)
    /\ UNCHANGED <<REST_SESSION_LOGIN, active, tokens, session>>

\* Login.login, get_or_create: no row was found, so create one. The key k is
\* Token.generate_key(): random, any value. An IntegrityError sends
\* get_or_create to a second get.
get_or_create_create(c, k) ==
    /\ pc[c] = "create"
    /\ \/ /\ Login_raise(c, "StoreUnavailable")
          /\ UNCHANGED tokens
       \/ /\ IntegrityError(ruser[c], k)
          /\ pc' = [pc EXCEPT ![c] = "get_again"]
          /\ UNCHANGED <<tokens, ruser, rtok, raised, resp, tstate>>
       \/ /\ ~IntegrityError(ruser[c], k)
          /\ tokens' = tokens \cup {Row(ruser[c], k)}
          /\ get_or_create_return(c, k, TRUE)
    /\ UNCHANGED <<REST_SESSION_LOGIN, active, session>>

\* Login.login, get_or_create: after the IntegrityError, get again; when
\* there is still no row the IntegrityError is raised again.
get_or_create_get_again(c) ==
    /\ pc[c] = "get_again"
    /\ \/ Login_raise(c, "StoreUnavailable")
       \/ /\ RowsOf(ruser[c]) = {}
          /\ Login_raise(c, "IntegrityError")
       \/ \E t \in RowsOf(ruser[c]) : get_or_create_return(c, t.key, FALSE)
    /\ UNCHANGED <<REST_SESSION_LOGIN, active, tokens, session>>

\* Login.login calling login(request, user) whatever the setting says.
Login_login_unconditional(c) ==
    /\ pc[c] = "login"
    /\ session' = [session EXCEPT ![c] = ruser[c]]
    /\ Respond(c, Response("login", HTTP_200_OK, ruser[c], rtok[c]))
    /\ UNCHANGED <<REST_SESSION_LOGIN, active, tokens, raised, tstate>>

\* Login.login after get_or_create: login(request, user) when the setting
\* allows it; then Login.get_response.
Login_login(c) ==
    /\ pc[c] = "login"
    /\ session' = IF session_login_enabled
                  THEN [session EXCEPT ![c] = ruser[c]]
                  ELSE session
    /\ Respond(c, Response("login", HTTP_200_OK, ruser[c], rtok[c]))
    /\ UNCHANGED <<REST_SESSION_LOGIN, active, tokens, raised, tstate>>

\* ----------------------------------------------------------------- Logout
\* Logout.post behind the gate of LoggedInRESTAPIView.
Logout_post(c, k) ==
    /\ pc[c] = "idle"
    /\ IF LoggedInRESTAPIView(c, k) = 0
       THEN Answer(c, Response("logout", HTTP_401_UNAUTHORIZED, 0, 0))
       ELSE Begin(c, LoggedInRESTAPIView(c, k), "delete")
    /\ UNCHANGED <<REST_SESSION_LOGIN, active, tokens, session>>

\* Logout.post without the try/except: the exception leaves the view.
Logout_delete_no_except(c) ==
    /\ pc[c] = "delete"
    /\ \/ /\ raised' = [raised EXCEPT ![c] = "StoreUnavailable"]
          /\ LoggedOut(c, ruser[c], TRUE)
          /\ Respond(c, Response("logout", UNHANDLED, 0, 0))
          /\ UNCHANGED tokens
       \/ /\ RowsOf(ruser[c]) = {}
          /\ raised' = [raised EXCEPT ![c] = "DoesNotExist"]
          /\ LoggedOut(c, ruser[c], FALSE)
          /\ Respond(c, Response("logout", UNHANDLED, 0, 0))
          /\ UNCHANGED tokens
       \/ /\ RowsOf(ruser[c]) # {}
          /\ tokens' = tokens \ RowsOf(ruser[c])
          /\ raised' = [raised EXCEPT ![c] = "none"]
          /\ LoggedOut(c, ruser[c], FALSE)
          /\ pc' = [pc EXCEPT ![c] = "logout"]
          /\ UNCHANGED <<ruser, rtok, resp>>
    /\ UNCHANGED <<REST_SESSION_LOGIN, active, session>>

\* Logout.post reading auth_token without calling delete() on it.
Logout_delete_no_delete(c) ==
    /\ pc[c] = "delete"
    /\ \/ /\ raised' = [raised EXCEPT ![c] = "StoreUnavailable"]
          /\ LoggedOut(c, ruser[c], TRUE)
       \/ /\ RowsOf(ruser[c]) = {}
          /\ raised' = [raised EXCEPT ![c] = "DoesNotExist"]
          /\ LoggedOut(c, ruser[c], FALSE)
       \/ /\ RowsOf(ruser[c]) # {}
          /\ raised' = [raised EXCEPT ![c] = "none"]
          /\ LoggedOut(c, ruser[c], FALSE)
    /\ pc' = [pc EXCEPT ![c] = "logout"]
    /\ UNCHANGED <<REST_SESSION_LOGIN, active, tokens, session, ruser, rtok, resp>>

\* try: request.user.auth_token.delete()  except: pass
\* The exception is kept in raised[c]; the view goes on to logout(request).
Logout_delete(c) ==
    /\ pc[c] = "delete"
    /\ \/ /\ raised' = [raised EXCEPT ![c] = "StoreUnavailable"]
          /\ LoggedOut(c, ruser[c], TRUE)
          /\ UNCHANGED tokens
       \/ /\ RowsOf(ruser[c]) = {}
          /\ raised' = [raised EXCEPT ![c] = "DoesNotExist"]
          /\ LoggedOut(c, ruser[c], FALSE)
          /\ UNCHANGED tokens
       \/ /\ RowsOf(ruser[c]) # {}
          /\ tokens' = tokens \ RowsOf(ruser[c])
          /\ raised' = [raised EXCEPT ![c] = "none"]
          /\ LoggedOut(c, ruser[c], FALSE)
    /\ pc' = [pc EXCEPT ![c] = "logout"]
    /\ UNCHANGED <<REST_SESSION_LOGIN, active, session, ruser, rtok, resp>>

\* logout(request); return Response({"success": ...}, status=HTTP_200_OK)
Logout_logout(c) ==
    /\ pc[c] = "logout"
    /\ session' = [session EXCEPT ![c] = 0]
    /\ Respond(c, Response("logout", HTTP_200_OK, 0, 0))
    /\ UNCHANGED <<REST_SESSION_LOGIN, active, tokens, raised, tstate>>

\* ------------------------------------------------------------ other views
\* The serializers of these views (rest_auth/serializers.py): valid is what
\* is_valid() answers for the request's data. save() writes to the user table
\* (the details, the password) or sends the reset e-mail, and neither reads
\* nor writes the Token table or a session. The user table is no state here
\* beyond is_active: the password is checked by django.contrib.auth, whose
\* answer is an input of Login_post.
serializer_save == UNCHANGED <<tokens, session>>

\* UserDetails (RetrieveUpdateAPIView), GET: get_object is request.user.
UserDetails_get(c, k) ==
    /\ pc[c] = "idle"
    /\ IF LoggedInRESTAPIView(c, k) = 0
       THEN Answer(c, Response("user", HTTP_401_UNAUTHORIZED, 0, 0))
       ELSE Answer(c, Response("user", HTTP_200_OK, 0, 0))
    /\ UNCHANGED <<REST_SESSION_LOGIN, active, tokens, session>>

\* UserDetails, PUT: the serializer validates and saves the details.
UserDetails_put(c, k, valid) ==
    /\ pc[c] = "idle"
    /\ IF LoggedInRESTAPIView(c, k) = 0
       THEN /\ Answer(c, Response("user", HTTP_401_UNAUTHORIZED, 0, 0))
            /\ UNCHANGED <<tokens, session>>
       ELSE IF ~valid
       THEN /\ Answer(c, Response("user", HTTP_400_BAD_REQUEST, 0, 0))
            /\ UNCHANGED <<tokens, session>>
       ELSE /\ serializer_save
            /\ Answer(c, Response("user", HTTP_200_OK, 0, 0))
    /\ UNCHANGED <<REST_SESSION_LOGIN, active>>

\* PasswordReset.post: the serializer validates and sends the e-mail.
PasswordReset_post(c, valid) ==
    /\ pc[c] = "idle"
    /\ IF ~valid
       THEN /\ Answer(c, Response("password_reset", HTTP_400_BAD_REQUEST, 0, 0))
            /\ UNCHANGED <<tokens, session>>
       ELSE /\ serializer_save
            /\ Answer(c, Response("password_reset", HTTP_200_OK, 0, 0))
    /\ UNCHANGED <<REST_SESSION_LOGIN, active>>

\* PasswordResetConfirm.post: the serializer validates the uid, the reset
\* token and the two passwords, and saves the new password.
PasswordResetConfirm_post(c, valid) ==
    /\ pc[c] = "idle"
    /\ IF ~valid
       THEN /\ Answer(c, Response("password_reset_confirm", HTTP_400_BAD_REQUEST, 0, 0))
            /\ UNCHANGED <<tokens, session>>
       ELSE /\ serializer_save
            /\ Answer(c, Response("password_reset_confirm", HTTP_200_OK, 0, 0))
    /\ UNCHANGED <<REST_SESSION_LOGIN, active>>

\* A password change that also revokes the user's token.
PasswordChange_post_revoking(c, k, valid) ==
    /\ pc[c] = "idle"
    /\ IF LoggedInRESTAPIView(c, k) = 0
       THEN /\ Answer(c, Response("password_change", HTTP_401_UNAUTHORIZED, 0, 0))
            /\ UNCHANGED tokens
       ELSE IF ~valid
       THEN /\ Answer(c, Response("password_change", HTTP_400_BAD_REQUEST, 0, 0))
            /\ UNCHANGED tokens
       ELSE /\ Answer(c, Response("password_change", HTTP_200_OK, 0, 0))
            /\ tokens' = tokens \ RowsOf(LoggedInRESTAPIView(c, k))
    /\ UNCHANGED <<REST_SESSION_LOGIN, active, session>>

\* PasswordChange.post behind the gate of LoggedInRESTAPIView: the serializer
\* validates the two passwords and saves the new password.
PasswordChange_post(c, k, valid) ==
    /\ pc[c] = "idle"
    /\ IF LoggedInRESTAPIView(c, k) = 0
       THEN /\ Answer(c, Response("password_change", HTTP_401_UNAUTHORIZED, 0, 0))
            /\ UNCHANGED <<tokens, session>>
       ELSE IF ~valid
       THEN /\ Answer(c, Response("password_change", HTTP_400_BAD_REQUEST, 0, 0))
            /\ UNCHANGED <<tokens, session>>
       ELSE /\ serializer_save
            /\ Answer(c, Response("password_change", HTTP_200_OK, 0, 0))
    /\ UNCHANGED <<REST_SESSION_LOGIN, active>>

Next ==
    \/ \E c \in Clients, username \in UserOrNone, pwOk \in BOOLEAN :
          Login_post(c, username, pwOk)
    \/ \E c \in Clients : get_or_create_get(c)
    \/ \E c \in Clients, k \in Keys : get_or_create_create(c, k)
    \/ \E c \in Clients : get_or_create_get_again(c)
    \/ \E c \in Clients : Login_login(c)
    \/ \E c \in Clients, k \in KeyOrNone : Logout_post(c, k)
    \/ \E c \in Clients : Logout_delete(c)
    \/ \E c \in Clients : Logout_logout(c)
    \/ \E c \in Clients, k \in KeyOrNone : UserDetails_get(c, k)
    \/ \E c \in Clients, k \in KeyOrNone, valid \in BOOLEAN :
          UserDetails_put(c, k, valid)
    \/ \E c \in Clients, valid \in BOOLEAN : PasswordReset_post(c, valid)
    \/ \E c \in Clients, valid \in BOOLEAN : PasswordResetConfirm_post(c, valid)
    \/ \E c \in Clients, k \in KeyOrNone, valid \in BOOLEAN :
          PasswordChange_post(c, k, valid)

Spec == Init /\ [][Next]_vars

\* ------------------------------------------------------- steps of a request
\* client c takes a step of its request
Steps(c) == pc'[c] # pc[c] \/ resp'[c] # resp[c]
\* get_or_create returns to Login.login in this step, for client c
Returns(c) == pc[c] \in {"get", "create", "get_again"} /\ pc'[c] = "login"
\* client c is inside get_or_create
InGetOrCreate(c) == pc[c] \in {"get", "create", "get_again"}

TypeOK ==
    /\ REST_SESSION_LOGIN \in {"unset", "True", "False"}
    /\ active \in [Users -> BOOLEAN]
    /\ tokens \subseteq [user : Users, key : Keys]
    /\ session \in [Clients -> UserOrNone]
    /\ pc \in [Clients -> {"idle", "get", "create", "get_again", "login",
                           "delete", "logout"}]
    /\ ruser \in [Clients -> UserOrNone]
    /\ rtok \in [Clients -> KeyOrNone]
    /\ raised \in [Clients -> {"none", "StoreUnavailable", "IntegrityError",
                               "DoesNotExist"}]
    /\ resp \in [Clients -> [op : {"none", "login", "logout", "user", "password_reset",
                                   "password_reset_confirm", "password_change"},
                             status : {"none", HTTP_200_OK, HTTP_400_BAD_REQUEST,
                                       HTTP_401_UNAUTHORIZED, UNHANDLED},
                             user : UserOrNone, token : KeyOrNone]]
    /\ tstate \in [Clients -> TokenStates]

\* ------------------------------------------------------------------ claims
\* C1: in every reachable state each user owns at most one token row, and
\* when the get_or_create of a login for user I returns, exactly one row
\* owned by I exists, the one whose key the login holds, whether the row was
\* minted by this login or was already there.
OneTokenPerUser == \A u \in Users : Cardinality(RowsOf(u)) <= 1
C1_OneTokenPerIdentity ==
    /\ []OneTokenPerUser
    /\ [][\A c \in Clients :
            Returns(c) => (RowsOf(ruser[c]))' = {Row(ruser[c], rtok'[c])}]_vars

\* C1 witness: a login minted a row, another login of the same user was
\* handed the row that was already there.
C1_Witness ==
    \E c, d \in Clients :
        /\ c # d
        /\ pc[c] = "idle" /\ pc[d] = "idle"
        /\ tstate[c] = "live" /\ tstate[d] = "live"
        /\ heldUser(c) = heldUser(d)
        /\ RowsOf(heldUser(c)) = {Row(heldUser(c), heldKey(c))}

\* C6: with logins of one user running at once in several clients, in any
\* interleaving with each other and with logouts, the table never holds two
\* rows of one user, and any two logins that were handed their token with no
\* logout of the user since hold the same key, which is the key of the one
\* row of the user.
C6_ConcurrentLogins ==
    /\ \A t1, t2 \in tokens : t1.user = t2.user => t1 = t2
    /\ \A c, d \in Clients :
          (c # d /\ tstate[c] = "live" /\ tstate[d] = "live"
                 /\ heldUser(c) = heldUser(d))
          => /\ heldKey(c) = heldKey(d)
             /\ RowsOf(heldUser(c)) = {Row(heldUser(c), heldKey(c))}

\* C6 witness: two logins of one user are inside Login.login at once, both
\* handed the same key.
C6_Witness ==
    \E c, d \in Clients :
        /\ c # d
        /\ pc[c] = "login" /\ pc[d] = "login"
        /\ ruser[c] = ruser[d]
        /\ rtok[c] = rtok[d] /\ rtok[c] # 0

C2_SecondLoginSameToken ==
    [][\A c, d \in Clients :
         (/\ c # d
          /\ pc[d] = "idle" /\ tstate[d] = "live"
          /\ InGetOrCreate(c) /\ ruser[c] = heldUser(d)
          /\ Steps(c))
         => /\ tokens' = tokens
            /\ Returns(c) => rtok'[c] = heldKey(d)]_vars

\* C2 witness: the first login has answered, the second has been handed the
\* same key and is about to answer.
C2_Witness ==
    \E c, d \in Clients :
        /\ c # d
        /\ pc[d] = "idle" /\ tstate[d] = "live"
        /\ pc[c] = "login" /\ tstate[c] = "live"
        /\ ruser[c] = heldUser(d) /\ rtok[c] = heldKey(d)

\* every row of the Token table resolves to its owner
PresentIsValid == \A t \in tokens : resolve(t.key) = t.user

C4_LogoutAlwaysSucceeds ==
    /\ [](\A c \in Clients :
            resp[c].op = "logout"
            => resp[c].status \in {HTTP_200_OK, HTTP_401_UNAUTHORIZED})
    /\ [][\A c \in Clients :
            /\ (pc[c] = "delete" /\ Steps(c))
               => /\ pc'[c] = "logout"
                  /\ raised'[c] # "none" => tokens' = tokens
            /\ (pc[c] = "logout" /\ Steps(c))
               => /\ pc'[c] = "idle"
                  /\ resp'[c] = Response("logout", HTTP_200_OK, 0, 0)]_vars

\* C4 witness: two logouts have answered 200, one whose delete found no row
\* and one whose delete failed.
C4_Witness ==
    \E c, d \in Clients :
        /\ resp[c] = Response("logout", HTTP_200_OK, 0, 0)
        /\ resp[d] = Response("logout", HTTP_200_OK, 0, 0)
        /\ raised[c] = "DoesNotExist"
        /\ raised[d] = "StoreUnavailable"

\* C5: a Login.post whose input the serializer refuses (unknown or missing
\* username, wrong password, inactive account) answers 400 in that step and
\* changes neither the Token table nor any session.
C5_InvalidLoginChangesNothing ==
    [][\A c \in Clients, username \in UserOrNone, pwOk \in BOOLEAN :
         (Login_post(c, username, pwOk) /\ LoginSerializer_user(username, pwOk) = 0)
         => /\ resp'[c] = Response("login", HTTP_400_BAD_REQUEST, 0, 0)
            /\ pc'[c] = "idle"
            /\ tokens' = tokens
            /\ session' = session]_vars

\* C5 witness: a login was refused with 400 while a row and a session exist.
C5_Witness ==
    \E c \in Clients :
        /\ resp[c] = Response("login", HTTP_400_BAD_REQUEST, 0, 0)
        /\ tokens # {}
        /\ \E d \in Clients : session[d] # 0

\* C8 as claimed: a request in which the Token table raised StoreUnavailable
\* (the get_or_create of a login, the delete of a logout) ends with that
\* exception leaving the view, never with a response of the view.
C8_StoreUnavailablePropagates ==
    \A c \in Clients :
        (raised[c] = "StoreUnavailable" /\ pc[c] = "idle")
        => resp[c].status = UNHANDLED

\* C8 as amended: a StoreUnavailable of the get_or_create of a login ends the
\* request there and leaves the view (no retry, no success response); a
\* StoreUnavailable of the delete of a logout is passed over: the logout goes
\* on and answers 200.
C8_StoreUnavailableLoginOnly ==
    \A c \in Clients :
        raised[c] = "StoreUnavailable"
        => \/ pc[c] = "idle" /\ resp[c] = Response("login", UNHANDLED, 0, 0)
           \/ pc[c] = "logout"
           \/ pc[c] = "idle" /\ resp[c] = Response("logout", HTTP_200_OK, 0, 0)

\* C8 witness: a login ended by StoreUnavailable, and a logout that answered
\* 200 after its delete raised StoreUnavailable.
C8_Witness ==
    \E c, d \in Clients :
        /\ raised[c] = "StoreUnavailable" /\ raised[d] = "StoreUnavailable"
        /\ resp[c] = Response("login", UNHANDLED, 0, 0)
        /\ resp[d] = Response("logout", HTTP_200_OK, 0, 0)

\* the setting read as the claim reads it: true when unset
FlagTrue == REST_SESSION_LOGIN \in {"unset", "True"}

\* C9: a client's session gets a user only in the step of Login.login that
\* follows get_or_create (the token is held), only with the setting true or
\* unset, and the user is the login's; with the setting false that step
\* answers 200 with the token and leaves every session alone; the last step
\* of every logout ends the client's session, whatever its delete did.
C9_SessionSideChannel ==
    [][\A c \in Clients :
         /\ (session'[c] # session[c] /\ session'[c] # 0)
            => /\ FlagTrue
               /\ pc[c] = "login" /\ rtok[c] # 0
               /\ session'[c] = ruser[c]
               /\ resp'[c].status = HTTP_200_OK
         /\ (pc[c] = "login" /\ Steps(c))
            => /\ resp'[c] = Response("login", HTTP_200_OK, ruser[c], rtok[c])
               /\ FlagTrue => session'[c] = ruser[c]
               /\ ~FlagTrue => session' = session
         /\ (pc[c] = "logout" /\ Steps(c)) => session'[c] = 0]_vars

\* C9 witness: one client has a session from its login, another has answered
\* a logout whose delete raised and has no session.
C9_Witness ==
    \E c, d \in Clients :
        /\ resp[c].op = "login" /\ resp[c].status = HTTP_200_OK
        /\ session[c] = resp[c].user
        /\ resp[d] = Response("logout", HTTP_200_OK, 0, 0)
        /\ raised[d] # "none"
        /\ session[d] = 0

OtherViews == {"user", "password_reset", "password_reset_confirm", "password_change"}

\* C10: the Token table changes only by the create of a login, which adds
\* the login's row, and by the delete of a logout, which removes the rows of
\* its user; a request of UserDetails, PasswordReset, PasswordResetConfirm or
\* PasswordChange, answered 200 or 400, leaves the table as it was, and every
\* key resolves after it as it did before.
C10_OnlyLoginAndLogoutWriteTokens ==
    [][/\ tokens' # tokens
          => \E c \in Clients :
                \/ /\ pc[c] = "create" /\ pc'[c] = "login"
                   /\ tokens' = tokens \cup {Row(ruser[c], rtok'[c])}
                \/ /\ pc[c] = "delete" /\ pc'[c] = "logout"
                   /\ tokens' = tokens \ RowsOf(ruser[c])
       /\ \A c \in Clients :
             (resp'[c] # resp[c] /\ resp'[c].op \in OtherViews)
             => /\ tokens' = tokens
                /\ \A k \in Keys : resolve(k)' = resolve(k)]_vars

\* C10 witness: a password change answered 200 while another client holds a
\* token handed before, which still resolves to its user.
C10_Witness ==
    \E c, d \in Clients :
        /\ resp[c] = Response("password_change", HTTP_200_OK, 0, 0)
        /\ tstate[d] = "live" /\ pc[d] = "idle"
        /\ resolve(heldKey(d)) = heldUser(d)
=============================================================================
